---- MODULE Spec2Model ----
\* The flag registry and argument parser of spar.rs.
\*
\* Text is modelled as a sequence of characters, each character a one-element
\* TLA+ string; "E9" stands for a character whose UTF-8 encoding is two bytes
\* long (such as U+00E9).  Rust slices strings by byte offset, so the byte
\* length of a character decides where a slice may start and end.
EXTENDS Integers, Sequences, FiniteSets, TLC

\* ---------------------------------------------------------------- bounds

\* Declarations made in one run of the model.
MaxFlags == 2
\* Tokens drawn from the argument iterators in one run of the model.
MaxArgs == 3

\* ------------------------------------------------------- program constants

FLAG_CAP == 256

\* --------------------------------------------------------------- strings

\* Option::None, for an iterator at its end and for a local not yet assigned:
\* a sequence that is no text, "None" being no character.
None == <<"None">>

Utf8Len(ch) == IF ch = "E9" THEN 2 ELSE 1

RECURSIVE ByteLen(_)
ByteLen(s) == IF s = <<>> THEN 0 ELSE Utf8Len(Head(s)) + ByteLen(Tail(s))

\* str::is_char_boundary: byte offset b starts a character of s or is its end.
IsCharBoundary(s, b) ==
    \E k \in 0..Len(s) : ByteLen(SubSeq(s, 1, k)) = b

\* The number of characters of s that lie before byte offset b.
CharsBefore(s, b) ==
    CHOOSE k \in 0..Len(s) : ByteLen(SubSeq(s, 1, k)) = b

\* &s[from..to] with byte offsets: it panics when from > to, when to is past
\* the end, or when an offset is inside a character.
SliceOk(s, from, to) ==
    /\ from <= to
    /\ to <= ByteLen(s)
    /\ IsCharBoundary(s, from)
    /\ IsCharBoundary(s, to)

Slice(s, from, to) ==
    SubSeq(s, CharsBefore(s, from) + 1, CharsBefore(s, to))

StartsWith(s, ch) == s # <<>> /\ Head(s) = ch

\* ------------------------------------------------------------ flag values

Bool(b) == [tag |-> "Bool", v |-> b]
Long(n) == [tag |-> "Long", v |-> n]
ULong(n) == [tag |-> "ULong", v |-> n]
Float(n) == [tag |-> "Float", v |-> n]
Double(n) == [tag |-> "Double", v |-> n]
String(s) == [tag |-> "String", v |-> s]

IsDigit(ch) == ch \in {"0", "1", "2", "3", "4", "5", "6", "7", "8", "9"}

DigitVal(ch) ==
    CASE ch = "0" -> 0 [] ch = "1" -> 1 [] ch = "2" -> 2 [] ch = "3" -> 3
      [] ch = "4" -> 4 [] ch = "5" -> 5 [] ch = "6" -> 6 [] ch = "7" -> 7
      [] ch = "8" -> 8 [] ch = "9" -> 9

AllDigits(s) == s # <<>> /\ \A i \in 1..Len(s) : IsDigit(s[i])

RECURSIVE DigitsVal(_, _)
DigitsVal(s, acc) ==
    IF s = <<>> THEN acc ELSE DigitsVal(Tail(s), 10 * acc + DigitVal(Head(s)))

\* A parse result: Ok(v) or Err.
Ok(v) == [ok |-> TRUE, v |-> v]
Err == [ok |-> FALSE, v |-> 0]

\* The digits ds without their leading zeros (one digit at least is kept).
RECURSIVE StripZeros(_)
StripZeros(ds) ==
    IF Len(ds) > 1 /\ Head(ds) = "0" THEN StripZeros(Tail(ds)) ELSE ds

\* a <= b for digit sequences of the same length.
RECURSIVE LexLeq(_, _)
LexLeq(a, b) ==
    IF a = <<>> THEN TRUE
    ELSE IF DigitVal(Head(a)) < DigitVal(Head(b)) THEN TRUE
    ELSE IF DigitVal(Head(a)) > DigitVal(Head(b)) THEN FALSE
    ELSE LexLeq(Tail(a), Tail(b))

\* The number written by the digits a is at most the one written by b (b
\* without leading zeros): the overflow check of the integer from_str.
DecLeq(a, b) ==
    LET x == StripZeros(a) IN
    Len(x) < Len(b) \/ (Len(x) = Len(b) /\ LexLeq(x, b))

\* i64::MAX, the magnitude of i64::MIN, and u64::MAX, as digits.
I64_MAX ==
    <<"9", "2", "2", "3", "3", "7", "2", "0", "3", "6",
      "8", "5", "4", "7", "7", "5", "8", "0", "7">>

I64_MIN_MAGNITUDE ==
    <<"9", "2", "2", "3", "3", "7", "2", "0", "3", "6",
      "8", "5", "4", "7", "7", "5", "8", "0", "8">>

U64_MAX ==
    <<"1", "8", "4", "4", "6", "7", "4", "4", "0", "7",
      "3", "7", "0", "9", "5", "5", "1", "6", "1", "5">>

\* <i64 as FromStr>::from_str: an optional sign, then one digit or more, and
\* an error when the number leaves the range of i64.  (The literals of
\* Tokens that are in range are short: their value is computed as a number.)
ParseSigned(msg) ==
    IF StartsWith(msg, "-")
    THEN IF AllDigits(Tail(msg)) /\ DecLeq(Tail(msg), I64_MIN_MAGNITUDE)
         THEN Ok(0 - DigitsVal(Tail(msg), 0)) ELSE Err
    ELSE IF StartsWith(msg, "+")
    THEN IF AllDigits(Tail(msg)) /\ DecLeq(Tail(msg), I64_MAX)
         THEN Ok(DigitsVal(Tail(msg), 0)) ELSE Err
    ELSE IF AllDigits(msg) /\ DecLeq(msg, I64_MAX)
         THEN Ok(DigitsVal(msg, 0)) ELSE Err

\* <u64 as FromStr>::from_str: a '+' is accepted, a '-' is an invalid digit,
\* and a number above u64::MAX is an error.
ParseUnsigned(msg) ==
    IF StartsWith(msg, "+")
    THEN IF AllDigits(Tail(msg)) /\ DecLeq(Tail(msg), U64_MAX)
         THEN Ok(DigitsVal(Tail(msg), 0)) ELSE Err
    ELSE IF AllDigits(msg) /\ DecLeq(msg, U64_MAX)
         THEN Ok(DigitsVal(msg, 0)) ELSE Err

\* ------------------------------------------------- floating-point literals
\* <f32 as FromStr>::from_str and <f64 as FromStr>::from_str (core::num::
\* dec2flt): the literal is scanned, then rounded to the nearest value of the
\* type, ties to even.  The arithmetic is exact, on whole numbers of any size
\* kept as sequences of limbs, most significant first, zero being <<>>.

\* The base of a limb: four decimal digits.
Limb == 10000

DigitChar(d) == <<"0", "1", "2", "3", "4", "5", "6", "7", "8", "9">>[d + 1]

RECURSIVE StripLimbs(_)
StripLimbs(x) ==
    IF x # <<>> /\ Head(x) = 0 THEN StripLimbs(Tail(x)) ELSE x

\* The whole number written by the digits ds.
LimbsOf(ds) ==
    LET pad == (4 - (Len(ds) % 4)) % 4
        at(i) == IF i <= pad THEN 0 ELSE DigitVal(ds[i - pad])
    IN  StripLimbs([j \in 1..((Len(ds) + pad) \div 4) |->
                      1000 * at(4 * j - 3) + 100 * at(4 * j - 2)
                        + 10 * at(4 * j - 1) + at(4 * j)])

\* The digits that write the whole number x, without leading zeros.
DigitsOf(x) ==
    IF x = <<>> THEN <<"0">>
    ELSE StripZeros([i \in 1..(4 * Len(x)) |->
            DigitChar((x[(i + 3) \div 4]
                         \div <<1000, 100, 10, 1>>[((i - 1) % 4) + 1]) % 10)])

\* The limbs lo..hi of x times m, plus c (m and c below Limb): the limbs of
\* the result, least significant first as the carry runs, and the carry out
\* of them.
RECURSIVE MulBlock(_, _, _, _, _)
MulBlock(x, lo, hi, m, c) ==
    IF lo > hi THEN [limbs |-> <<>>, carry |-> c]
    ELSE IF lo = hi
    THEN LET cur == x[lo] * m + c IN
         [limbs |-> <<cur % Limb>>, carry |-> cur \div Limb]
    ELSE LET mid == (lo + hi) \div 2
             low == MulBlock(x, mid + 1, hi, m, c)
             high == MulBlock(x, lo, mid, m, low.carry)
         IN  [limbs |-> low.limbs \o high.limbs, carry |-> high.carry]

Reversed(s) == [i \in 1..Len(s) |-> s[Len(s) + 1 - i]]

\* x * m + c.
MulAdd(x, m, c) ==
    IF x = <<>> THEN (IF c = 0 THEN <<>> ELSE <<c>>)
    ELSE LET r == MulBlock(x, 1, Len(x), m, c) IN
         StripLimbs((IF r.carry = 0 THEN <<>> ELSE <<r.carry>>)
                    \o Reversed(r.limbs))

MulSmall(x, m) == MulAdd(x, m, 0)

\* The limbs lo..hi of x, with the remainder rem carried in from the left,
\* divided by d (below Limb): the limbs of the quotient and the remainder.
RECURSIVE DivBlock(_, _, _, _, _)
DivBlock(x, lo, hi, d, rem) ==
    IF lo > hi THEN [limbs |-> <<>>, r |-> rem]
    ELSE IF lo = hi
    THEN LET cur == rem * Limb + x[lo] IN
         [limbs |-> <<cur \div d>>, r |-> cur % d]
    ELSE LET mid == (lo + hi) \div 2
             high == DivBlock(x, lo, mid, d, rem)
             low == DivBlock(x, mid + 1, hi, d, high.r)
         IN  [limbs |-> high.limbs \o low.limbs, r |-> low.r]

\* x divided by d: the quotient q and the remainder r.
DivSmall(x, d) ==
    IF x = <<>> THEN [q |-> <<>>, r |-> 0]
    ELSE LET t == DivBlock(x, 1, Len(x), d, 0) IN
         [q |-> StripLimbs(t.limbs), r |-> t.r]

RECURSIVE Pow(_, _)
Pow(b, k) == IF k = 0 THEN 1 ELSE b * Pow(b, k - 1)

\* x * b^k, taken chunk factors at a time at most (b^chunk is below Limb).
RECURSIVE MulPow(_, _, _, _)
MulPow(x, b, chunk, k) ==
    IF x = <<>> THEN <<>>
    ELSE IF k <= chunk THEN MulSmall(x, Pow(b, k))
    ELSE LET h == chunk * (((k \div chunk) + 1) \div 2) IN
         MulPow(MulPow(x, b, chunk, h), b, chunk, k - h)

\* x divided by b^k: the quotient q, and st: st held or a remainder was left.
RECURSIVE DivPow(_, _, _, _, _)
DivPow(x, st, b, chunk, k) ==
    IF x = <<>> THEN [q |-> <<>>, st |-> st]
    ELSE IF k <= chunk
    THEN LET d == DivSmall(x, Pow(b, k)) IN [q |-> d.q, st |-> st \/ d.r # 0]
    ELSE LET h == chunk * (((k \div chunk) + 1) \div 2)
             first == DivPow(x, st, b, chunk, h)
         IN  DivPow(first.q, first.st, b, chunk, k - h)

\* x < y.
RECURSIVE LexLess(_, _, _)
LexLess(x, y, i) ==
    IF i > Len(x) THEN FALSE
    ELSE IF x[i] < y[i] THEN TRUE
    ELSE IF x[i] > y[i] THEN FALSE
    ELSE LexLess(x, y, i + 1)

LimbsLess(x, y) ==
    Len(x) < Len(y) \/ (Len(x) = Len(y) /\ LexLess(x, y, 1))

\* 2^j, for j from 0 to 94.
PowersOfTwo == [j \in 0..94 |-> MulPow(<<1>>, 2, 13, j)]

\* The number of bits of x, known to be in lo..hi (94 at most): the least j
\* with x < 2^j.
RECURSIVE Bits(_, _, _)
Bits(x, lo, hi) ==
    IF lo >= hi THEN lo
    ELSE LET mid == (lo + hi) \div 2 IN
         IF LimbsLess(x, PowersOfTwo[mid]) THEN Bits(x, lo, mid)
         ELSE Bits(x, mid + 1, hi)

\* The two types: p bits of precision; the values are m * 2^q with m below
\* 2^p and q at least qmin; the largest is below 2^(emax + 1).  A number of
\* at least 10^inf10 is above the largest value by more than half a unit in
\* the last place, a number below 10^zero10 is below half the least value,
\* and a whole number below 10^exact10 is below 2^p, so a value of the type.
F32 == [p |-> 24, qmin |-> -149, emax |-> 127, inf10 |-> 39, zero10 |-> -46,
        exact10 |-> 7]

F64 == [p |-> 53, qmin |-> -1074, emax |-> 1023, inf10 |-> 309,
        zero10 |-> -324, exact10 |-> 15]

\* The fraction digits fr without the zeros that end them.
StripTrailingZeros(ds) ==
    LET kept == {i \in 1..Len(ds) : ds[i] # "0"} IN
    IF kept = {} THEN <<>>
    ELSE SubSeq(ds, 1, CHOOSE i \in kept : \A j \in kept : j <= i)

\* A floating-point payload: a finite value by its sign and its exact decimal
\* expansion (every value of the two types has a finite one), an infinity by
\* its sign, or a NaN.  (0.0 and -0.0 compare equal: zero carries no sign.
\* A NaN compares unequal to itself in the program; the model has one NaN.)
Finite(neg, ds, fr) ==
    [class |-> "finite",
     neg |-> neg /\ (StripZeros(ds) # <<"0">> \/ StripTrailingZeros(fr) # <<>>),
     digits |-> StripZeros(ds),
     frac |-> StripTrailingZeros(fr)]

Infinite(neg) ==
    [class |-> "inf", neg |-> neg, digits |-> <<>>, frac |-> <<>>]

NaN == [class |-> "nan", neg |-> FALSE, digits |-> <<>>, frac |-> <<>>]

\* A floating-point payload whose value is the whole number the digits write.
Whole(neg, ds) == Finite(neg, ds, <<>>)

\* m * 2^q with a negative q, the factors of two that m holds taken out of
\* both, thirteen at a time where they are there: m * 2^q as it was.
RECURSIVE Reduced(_, _)
Reduced(m, q) ==
    IF q >= 0 \/ m = <<>> THEN [m |-> m, q |-> q]
    ELSE LET wide == DivSmall(m, 8192)
             one == DivSmall(m, 2)
         IN  IF q <= -13 /\ wide.r = 0 THEN Reduced(wide.q, q + 13)
             ELSE IF one.r = 0 THEN Reduced(one.q, q + 1)
             ELSE [m |-> m, q |-> q]

\* The payload whose digits are t with the point k places from their end.
Pointed(neg, t, k) ==
    Finite(neg,
           IF Len(t) > k THEN SubSeq(t, 1, Len(t) - k) ELSE <<"0">>,
           [i \in 1..k |-> IF i <= k - Len(t) THEN "0"
                           ELSE t[i - (k - Len(t))]])

\* The payload r.m * 2^(r.q): for a negative q it is m * 5^(-q) with the
\* point -q places from the end.
Written(neg, r) ==
    IF r.q >= 0 THEN Whole(neg, DigitsOf(MulPow(r.m, 2, 13, r.q)))
    ELSE Pointed(neg, DigitsOf(MulPow(r.m, 5, 5, 0 - r.q)), 0 - r.q)

\* The payload m * 2^q.
Expansion(neg, m, q) ==
    IF m = <<>> THEN Whole(FALSE, <<"0">>) ELSE Written(neg, Reduced(m, q))

\* The quotient d.q as a mantissa of exponent E; d.st: a remainder was left.
Shifted(d, E) == [m |-> d.q, E |-> E, st |-> d.st]

\* The number d * 10^e as (m + f) * 2^E, with m a whole number of more than
\* p + 1 bits, f in [0, 1), and st: f is not zero.  For a negative e, d is
\* multiplied by 2^(p + 2 - 3e) and divided by 5^(-e), so E is 4e - p - 2.
Scaled(fmt, d, e) ==
    IF e >= 0
    THEN [m |-> MulPow(MulPow(d, 5, 5, e), 2, 13, fmt.p + 2),
          E |-> e - (fmt.p + 2), st |-> FALSE]
    ELSE Shifted(DivPow(MulPow(d, 2, 13, fmt.p + 2 - 3 * e), FALSE,
                        5, 5, 0 - e),
                 4 * e - fmt.p - 2)

\* The n low bits of r.m are dropped.
Dropped(r, n) == Shifted(DivPow(r.m, r.st, 2, 13, n), r.E + n)

\* Low bits are dropped, 13 for every limb above seven, until seven limbs
\* are left at most (each time, less than one limb goes for 13 bits).
RECURSIVE Coarse(_)
Coarse(r) ==
    IF Len(r.m) > 7 THEN Coarse(Dropped(r, 13 * (Len(r.m) - 7))) ELSE r

\* The over or under low bits of r.m, whichever is more, are dropped.
Trimmed(r, over, under) ==
    IF over > 0 \/ under > 0
    THEN Dropped(r, IF over >= under THEN over ELSE under)
    ELSE r

\* Low bits are dropped until bits bits are left at most and E is at least
\* low.  (Seven limbs are below 2^94.)
Fine(r, bits, low) == Trimmed(r, Bits(r.m, 0, 94) - bits, low - r.E)

\* The half h (quotient q and remainder r of the division by two) rounded:
\* up when more than a half was dropped (st: bits below the last were set),
\* or just a half and h.q is odd.
HalfEven(h, st) ==
    IF h.r = 1 /\ (st \/ (h.q # <<>> /\ h.q[Len(h.q)] % 2 = 1))
    THEN MulAdd(h.q, 1, 1)
    ELSE h.q

\* The payload m * 2^q of the type fmt; at 2^(emax + 1) and above, the
\* infinity.
Placed(fmt, neg, m, q) ==
    IF \/ q > fmt.emax - fmt.p + 1
       \/ q = fmt.emax - fmt.p + 1 /\ m = PowersOfTwo[fmt.p]
    THEN Infinite(neg)
    ELSE Expansion(neg, m, q)

\* (r.m + f) * 2^(r.E), with one bit more than the type holds, rounded to
\* the nearest value of the type, ties to even.
Rounded(fmt, neg, r) ==
    Placed(fmt, neg, HalfEven(DivSmall(r.m, 2), r.st), r.E + 1)

\* The value of the type fmt nearest to d * 10^e (d not zero), ties to even.
Nearest(fmt, neg, d, e) ==
    Rounded(fmt, neg,
            Fine(Coarse(Scaled(fmt, d, e)), fmt.p + 1, fmt.qmin - 1))

\* The number of digits at the start of s.
LeadingDigits(s) ==
    LET others == { i \in 1..Len(s) : ~IsDigit(s[i]) } IN
    IF others = {} THEN Len(s)
    ELSE (CHOOSE i \in others : \A j \in others : i <= j) - 1

\* parse_scientific: the exponent stops growing once it has reached 0x10000.
RECURSIVE Exponent(_, _)
Exponent(s, acc) ==
    IF s = <<>> THEN acc
    ELSE Exponent(Tail(s), IF acc < 65536 THEN 10 * acc + DigitVal(Head(s))
                           ELSE acc)

\* parse_scientific: the digits s5 of the exponent; ds are the digits of the
\* number, n2 of them after the point.
ScanPower(ds, n2, minus, s5) ==
    IF ~AllDigits(s5) THEN Err
    ELSE Ok([d |-> ds,
             e |-> (IF minus THEN 0 - Exponent(s5, 0) ELSE Exponent(s5, 0))
                   - n2])

\* What follows the digits: nothing, or 'e' or 'E', a sign and digits.
ScanTail(ds, n2, rest) ==
    IF rest = <<>> THEN Ok([d |-> ds, e |-> 0 - n2])
    ELSE IF Head(rest) \notin { "e", "E" } THEN Err
    ELSE ScanPower(ds, n2, StartsWith(Tail(rest), "-"),
                   IF StartsWith(Tail(rest), "-") \/ StartsWith(Tail(rest), "+")
                   THEN Tail(Tail(rest)) ELSE Tail(rest))

\* The n1 digits at the start of s and the n2 digits from from on: one digit
\* at least in all.
ScanDigits(s, n1, from, n2) ==
    IF n1 + n2 = 0 THEN Err
    ELSE ScanTail(SubSeq(s, 1, n1) \o SubSeq(s, from, from + n2 - 1), n2,
                  SubSeq(s, from + n2, Len(s)))

\* After the n1 digits at the start of s: '.' and digits, or neither.
ScanFraction(s, n1) ==
    IF n1 < Len(s) /\ s[n1 + 1] = "."
    THEN ScanDigits(s, n1, n1 + 2, LeadingDigits(SubSeq(s, n1 + 2, Len(s))))
    ELSE ScanDigits(s, n1, n1 + 1, 0)

\* parse_number on the literal without its sign: digits, then '.' and digits
\* (one digit at least in all), then 'e' or 'E', a sign and digits.  Ok with
\* the digits d and the power of ten e the literal writes, d * 10^e.
ScanDecimal(s) == ScanFraction(s, LeadingDigits(s))

\* parse_inf_nan: the letters are compared without regard to case.
Upper(ch) ==
    CASE ch = "i" -> "I" [] ch = "n" -> "N" [] ch = "f" -> "F"
      [] ch = "a" -> "A" [] ch = "t" -> "T" [] ch = "y" -> "Y"
      [] OTHER -> ch

IsWord(s, word) ==
    Len(s) = Len(word) /\ \A i \in 1..Len(s) : Upper(s[i]) = word[i]

\* The value of the type fmt for the digits d (no leading zeros) times 10^e.
Decimal(fmt, neg, d, e) ==
    IF d = <<"0">> THEN Whole(FALSE, <<"0">>)
    ELSE IF Len(d) - 1 + e >= fmt.inf10 THEN Infinite(neg)
    ELSE IF Len(d) + e <= fmt.zero10 THEN Whole(FALSE, <<"0">>)
    ELSE IF e >= 0 /\ Len(d) + e <= fmt.exact10
    THEN Whole(neg, d \o [i \in 1..e |-> "0"])
    ELSE Nearest(fmt, neg, LimbsOf(d), e)

\* The literal s without its sign, scanned as a decimal number with the
\* outcome r: the number or, failing that, "inf", "infinity" or "nan".
Unsigned(fmt, neg, s, r) ==
    IF r.ok THEN Ok(Decimal(fmt, neg, StripZeros(r.v.d), r.v.e))
    ELSE IF IsWord(s, <<"I", "N", "F">>)
            \/ IsWord(s, <<"I", "N", "F", "I", "N", "I", "T", "Y">>)
    THEN Ok(Infinite(neg))
    ELSE IF IsWord(s, <<"N", "A", "N">>) THEN Ok(NaN)
    ELSE Err

\* The literal without its sign; a sign alone is no literal.
Signed(fmt, neg, s) ==
    IF s = <<>> THEN Err ELSE Unsigned(fmt, neg, s, ScanDecimal(s))

\* dec2flt for the type fmt: a sign or none, then the literal.
ParseFloat(fmt, msg) ==
    IF msg = <<>> THEN Err
    ELSE Signed(fmt, Head(msg) = "-",
                IF Head(msg) \in { "-", "+" } THEN Tail(msg) ELSE msg)

\* The String arm of FlagValue::parse: msg[1..msg.len() - 1] when msg starts
\* with a double quote, msg itself otherwise.
ParseQuoted(msg) ==
    IF StartsWith(msg, "\"")
    THEN IF SliceOk(msg, 1, ByteLen(msg) - 1)
         THEN Ok(Slice(msg, 1, ByteLen(msg) - 1))
         ELSE Err
    ELSE Ok(msg)

\* Mutant: a numeric literal that does not parse yields the zero of the kind
\* (unwrap_or_default in place of unwrap).
FlagValueParse_OrDefault(value, msg) ==
    CASE value.tag = "Long" ->
           LET r == ParseSigned(msg) IN Ok(Long(IF r.ok THEN r.v ELSE 0))
      [] value.tag = "ULong" ->
           LET r == ParseUnsigned(msg) IN Ok(ULong(IF r.ok THEN r.v ELSE 0))
      [] value.tag = "Float" ->
           LET r == ParseFloat(F32, msg) IN
           Ok(Float(IF r.ok THEN r.v ELSE Whole(FALSE, <<"0">>)))
      [] value.tag = "Double" ->
           LET r == ParseFloat(F64, msg) IN
           Ok(Double(IF r.ok THEN r.v ELSE Whole(FALSE, <<"0">>)))
      [] value.tag = "String" ->
           LET r == ParseQuoted(msg) IN IF r.ok THEN Ok(String(r.v)) ELSE Err
      [] OTHER -> Err

\* Mutant: the token is stored as it is, as a String, whatever the kind.
FlagValueParse_Untyped(value, msg) == Ok(String(msg))

\* FlagValue::parse(&mut self, msg): Ok(the new value) or Err for a panic
\* (unwrap of a failed parse, a slice out of range, unreachable!()).
FlagValueParse(value, msg) ==
    CASE value.tag = "Long" ->
           LET r == ParseSigned(msg) IN IF r.ok THEN Ok(Long(r.v)) ELSE Err
      [] value.tag = "ULong" ->
           LET r == ParseUnsigned(msg) IN IF r.ok THEN Ok(ULong(r.v)) ELSE Err
      [] value.tag = "Float" ->
           LET r == ParseFloat(F32, msg) IN IF r.ok THEN Ok(Float(r.v)) ELSE Err
      [] value.tag = "Double" ->
           LET r == ParseFloat(F64, msg) IN IF r.ok THEN Ok(Double(r.v)) ELSE Err
      [] value.tag = "String" ->
           LET r == ParseQuoted(msg) IN IF r.ok THEN Ok(String(r.v)) ELSE Err
      [] OTHER -> Err

\* ------------------------------------------------------------ flag records

\* OwnedFlag::new: short_form is &name[0..=0], the first byte of the name.
OwnedFlagNewOk(name) == SliceOk(name, 0, 1)

OwnedFlagNew(name, value) ==
    [name |-> name, short_form |-> Slice(name, 0, 1), value |-> value]

\* OwnedFlag::with_short_form.
OwnedFlagWithShortForm(name, short_form, value) ==
    [name |-> name, short_form |-> short_form, value |-> value]

\* ------------------------------------------------------------------ state

VARIABLES
    flags,        \* FlagContext.flags[0..position]: the records, in order
    flag_ignore,  \* FlagContext.flag_ignore
    pc,           \* "idle", "parsing" (inside parse_args) or "panicked"
    consumed,     \* tokens the argument iterators have yielded so far
    arg,          \* parse_args: the token of the current loop iteration
    val,          \* parse_args: the token taken as the value of arg
    thread,       \* the thread making the calls: FLAGS is its instance
    parked        \* FLAGS and the call in progress of every other thread

vars == <<flags, flag_ignore, pc, consumed, arg, val, thread, parked>>

\* FlagContext.position.
position == Len(flags)

\* ----------------------------------------------------------------- inputs

\* An input universe: the names, short forms and default values given to
\* declarations, how many declarations are made, and the tokens the argument
\* iterators yield.
Universe(names, short_forms, values, decls, tokens) ==
    [names |-> names, short_forms |-> short_forms, values |-> values,
     decls |-> decls, tokens |-> tokens]

\* Matching: a name that is another name's first character, Bool and
\* non-Bool flags, explicit short forms, ignore-marked, unknown and dash-only
\* tokens, an integer literal.
Matching ==
    Universe({ <<"v", "b">>, <<"v">> },
             { <<"s">> },
             { Bool(FALSE), Long(0) },
             MaxFlags,
             { <<"-", "-", "v", "b">>, <<"-", "v">>, <<"s">>,
               <<"-", "-", "/", "v", "b">>, <<"/", "v">>, <<"-", "/", "s">>,
               <<"-", "-", "x">>, <<"-", "-">>, <<"7">> })

\* Quoting: String flags and value tokens with and without double quotes, a
\* lone double quote and a quoted token ending in a two-byte character.
Quoting ==
    Universe({ <<"l">> },
             { <<"s">> },
             { String(<<>>), Bool(FALSE) },
             MaxFlags,
             { <<"-", "-", "l">>, <<"-", "/", "s">>,
               <<"a">>, <<"\"", "a", "\"">>, <<"\"", "a">>, <<"\"", "\"">>,
               <<"\"">>, <<"\"", "E9">>, <<"a", "E9">> })

\* Declaring: names whose first byte is no character (the empty name, a name
\* starting with a two-byte character) next to a plain name, an empty short
\* form, and the tokens that can name them.
Declaring ==
    Universe({ <<"v", "b">>, <<>>, <<"E9", "v">> },
             { <<"s">>, <<>> },
             { Bool(FALSE), Long(0) },
             MaxFlags,
             { <<"-", "v">>, <<"-", "-", "v", "b">>, <<"/">>, <<"-", "-">>,
               <<"E9">>, <<"-", "E9", "v">>, <<"7">> })

\* Marking: one name, declared with its default short form or with an empty
\* one, and tokens that differ in their dashes and in the ignore mark.
Marking ==
    Universe({ <<"v">> },
             { <<>> },
             { Bool(FALSE), Long(0) },
             MaxFlags,
             { <<>>, <<"-">>, <<"-", "-", "-">>, <<"v">>, <<"-", "-", "v">>,
               <<"/", "v">>, <<"-", "/", "v">>, <<"/">>, <<"7">> })

\* Numeric: every numeric kind and a Bool, and value tokens that are valid
\* for some kinds ("-9"; 2^64, out of range for both integer kinds and, as a
\* float, a value of both types; "1.5", "1e3" and "inf", floats only) and for
\* none ("x", the empty token).
Numeric ==
    Universe({ <<"n">> },
             { <<"s">> },
             { Bool(FALSE), Long(0), ULong(0),
               Float(Whole(FALSE, <<"0">>)), Double(Whole(FALSE, <<"0">>)) },
             MaxFlags,
             { <<"-", "n">>, <<"-", "s">>, <<"/", "n">>,
               <<"-", "9">>, <<"x">>, <<>>,
               <<"1", "8", "4", "4", "6", "7", "4", "4", "0", "7",
                 "3", "7", "0", "9", "5", "5", "1", "6", "1", "6">>,
               <<"1", ".", "5">>, <<"1", "e", "3">>, <<"i", "n", "f">> })

\* Kinds: one flag of every kind, and value tokens that are stored by some
\* kinds and refused by others; 2^24 + 1 is stored as written by all the
\* numeric kinds but Float, which has no such value and stores 2^24.
Kinds ==
    Universe({ <<"n">> },
             { <<"n">> },
             { Bool(FALSE), Long(0), ULong(0), Float(Whole(FALSE, <<"0">>)),
               Double(Whole(FALSE, <<"0">>)), String(<<>>) },
             MaxFlags,
             { <<"-", "n">>, <<"/", "n">>, <<"7">>, <<"-", "9">>,
               <<"\"", "7", "\"">>,
               <<"1", "6", "7", "7", "7", "2", "1", "7">> })

\* Aliasing: a name that starts with a one-byte character and one that starts
\* with a two-byte character, declared with the default short form or with
\* the explicit short form s.
Aliasing ==
    Universe({ <<"v", "b">>, <<"E9", "v">> },
             { <<"s">> },
             { Bool(FALSE), Long(0) },
             MaxFlags,
             { <<"-", "v">>, <<"-", "-", "v", "b">>, <<"-", "s">>,
               <<"E9">>, <<"-", "E9", "v">>, <<"7">> })

\* Threading: one name, declared on either thread as a Bool or as a Long,
\* and the tokens naming it; a Long flag makes the parse panic (no value
\* token is a number, or none is left) on the thread that runs it.
Threading ==
    Universe({ <<"v">> },
             { <<"s">> },
             { Bool(FALSE), Long(0) },
             MaxFlags,
             { <<"-", "v">>, <<"/", "s">> })

\* Capacity: one record declared over and over, with and without a short
\* form, until the registry is full and once more.
Capacity ==
    Universe({ <<"v">> },
             { <<"v">> },
             { Bool(FALSE) },
             FLAG_CAP + 1,
             { <<"-", "v">>, <<"/", "v">> })

\* --------------------------------------------------------------- registry

\* The threads of the process.
Threads == { "main", "worker" }

\* What a thread has of its own: its instance of the thread_local FLAGS
\* (FlagContext::new on first use) and the call it is in.
Fresh ==
    [flags |-> <<>>, flag_ignore |-> TRUE, pc |-> "idle",
     arg |-> None, val |-> None]

\* FlagContext::new, on the main thread.
Init ==
    /\ flags = <<>>
    /\ flag_ignore = TRUE
    /\ pc = "idle"
    /\ consumed = 0
    /\ arg = None
    /\ val = None
    /\ thread = "main"
    /\ parked = [t \in Threads \ {"main"} |-> Fresh]

\* The thread t makes the next calls: FLAGS.with_borrow_mut resolves to the
\* instance of the calling thread.  A panic ends the thread that made the
\* call and no other: a thread that has panicked makes no further calls, the
\* other threads go on, each on its own instance (when the main thread has
\* panicked, for as long as the process still runs).
run_on(t) ==
    /\ t \in Threads \ {thread}
    /\ parked[t].pc # "panicked"
    /\ thread' = t
    /\ flags' = parked[t].flags
    /\ flag_ignore' = parked[t].flag_ignore
    /\ pc' = parked[t].pc
    /\ arg' = parked[t].arg
    /\ val' = parked[t].val
    /\ parked' = [u \in Threads \ {t} |->
                    IF u = thread
                    THEN [flags |-> flags, flag_ignore |-> flag_ignore,
                          pc |-> pc, arg |-> arg, val |-> val]
                    ELSE parked[u]]
    /\ UNCHANGED consumed

\* new_flag(name, value): the flag_bool .. flag_string declarations.
new_flag(name, value) ==
    /\ pc = "idle"
    /\ IF position = FLAG_CAP \/ ~OwnedFlagNewOk(name)
       THEN /\ pc' = "panicked"
            /\ flags' = flags
       ELSE /\ flags' = Append(flags, OwnedFlagNew(name, value))
            /\ pc' = pc
    /\ UNCHANGED <<flag_ignore, consumed, arg, val, thread, parked>>

\* new_flag_short(name, short_form, value): the flag_*_short declarations.
new_flag_short(name, short_form, value) ==
    /\ pc = "idle"
    /\ IF position = FLAG_CAP
       THEN /\ pc' = "panicked"
            /\ flags' = flags
       ELSE /\ flags' = Append(flags, OwnedFlagWithShortForm(name, short_form, value))
            /\ pc' = pc
    /\ UNCHANGED <<flag_ignore, consumed, arg, val, thread, parked>>

\* Mutant: the call flips the ignore mode.
disable_flag_ignore_Toggle ==
    /\ pc = "idle"
    /\ flag_ignore' = ~flag_ignore
    /\ UNCHANGED <<flags, pc, consumed, arg, val, thread, parked>>

\* disable_flag_ignore.
disable_flag_ignore ==
    /\ pc = "idle"
    /\ flag_ignore' = FALSE
    /\ UNCHANGED <<flags, pc, consumed, arg, val, thread, parked>>

\* ----------------------------------------------------------------- parser

\* Mutant: two leading dashes at most are dropped.
StripDashes_AtMostTwo(s) ==
    IF StartsWith(s, "-")
    THEN IF StartsWith(Tail(s), "-") THEN Tail(Tail(s)) ELSE Tail(s)
    ELSE s

\* parse_args, lines 127-133: skip every leading '-'.
RECURSIVE StripDashes(_)
StripDashes(s) ==
    IF StartsWith(s, "-") THEN StripDashes(Tail(s)) ELSE s

\* Line 137: nothing is left after the dashes, the token is skipped.
IsSkipped(tok) == StripDashes(tok) = <<>>

\* Lines 135-136: the character after the dashes is '/'.
IsMarked(tok) == StartsWith(StripDashes(tok), "/")

\* Lines 139-146: the characters after the dashes and the optional '/'.
NameOf(tok) ==
    IF IsMarked(tok) THEN Tail(StripDashes(tok)) ELSE StripDashes(tok)

\* Mutant: a record is matched when its name or short form starts with the
\* token's name.
RECURSIVE ScanFrom_Prefix(_, _, _)
ScanFrom_Prefix(fs, name, i) ==
    IF i > Len(fs) THEN 0
    ELSE IF /\ ~(/\ Len(name) <= Len(fs[i].name)
                 /\ SubSeq(fs[i].name, 1, Len(name)) = name)
            /\ ~(/\ Len(name) <= Len(fs[i].short_form)
                 /\ SubSeq(fs[i].short_form, 1, Len(name)) = name)
         THEN ScanFrom_Prefix(fs, name, i + 1)
         ELSE i

\* Mutant: the short form is not compared.
RECURSIVE ScanFrom_NameOnly(_, _, _)
ScanFrom_NameOnly(fs, name, i) ==
    IF i > Len(fs) THEN 0
    ELSE IF fs[i].name # name
         THEN ScanFrom_NameOnly(fs, name, i + 1)
         ELSE i

\* Lines 148-156: the scan of the records in registration order, from index i;
\* the index of the first record whose name or short_form is name, 0 for none.
RECURSIVE ScanFrom(_, _, _)
ScanFrom(fs, name, i) ==
    IF i > Len(fs) THEN 0
    ELSE IF fs[i].name # name /\ fs[i].short_form # name
         THEN ScanFrom(fs, name, i + 1)
         ELSE i

\* Mutant: the last record named wins, not the first.
FindFlag_Last(fs, name) ==
    IF \E i \in 1..Len(fs) : fs[i].name = name \/ fs[i].short_form = name
    THEN CHOOSE i \in 1..Len(fs) :
            /\ fs[i].name = name \/ fs[i].short_form = name
            /\ \A j \in (i + 1)..Len(fs) :
                  fs[j].name # name /\ fs[j].short_form # name
    ELSE 0

FindFlag(fs, name) == ScanFrom(fs, name, 1)

\* Mutant: the mark alone decides, whatever the ignore mode.
EffectiveIgnore_MarkOnly(mode, tok) == IsMarked(tok)

\* Line 142.
EffectiveIgnore(mode, tok) == mode /\ IsMarked(tok)

\* The outcome of one iteration of the loop of parse_args.
Outcome(fs, took, panicked) == [flags |-> fs, took |-> took, panicked |-> panicked]

\* Mutant: the ignored occurrence of a non-Bool flag takes no value token.
IgnoredMatch_NoConsume(fs, i, nxt) == Outcome(fs, FALSE, FALSE)

\* Mutant: the ignored occurrence takes the value token without unwrap().
IgnoredMatch_Lenient(fs, i, nxt) ==
    IF fs[i].value.tag = "Bool" THEN Outcome(fs, FALSE, FALSE)
    ELSE IF nxt = None THEN Outcome(fs, FALSE, FALSE)
    ELSE Outcome(fs, TRUE, FALSE)

\* Lines 158-169: the matched record i under an effective ignore; nxt is what
\* proc_args.next() returns when it is called.
IgnoredMatch(fs, i, nxt) ==
    IF fs[i].value.tag = "Bool" THEN Outcome(fs, FALSE, FALSE)
    ELSE IF nxt = None THEN Outcome(fs, FALSE, TRUE)
    ELSE Outcome(fs, TRUE, FALSE)

\* Mutant: a Bool flag is set, not toggled.
AppliedMatch_SetTrue(fs, i, nxt) ==
    IF fs[i].value.tag = "Bool"
    THEN Outcome([fs EXCEPT ![i].value = Bool(TRUE)], FALSE, FALSE)
    ELSE IF nxt = None THEN Outcome(fs, FALSE, TRUE)
    ELSE LET r == FlagValueParse(fs[i].value, nxt) IN
         IF r.ok THEN Outcome([fs EXCEPT ![i].value = r.v], TRUE, FALSE)
         ELSE Outcome(fs, TRUE, TRUE)

\* Mutant: a missing value token is passed over instead of unwrap()ped.
AppliedMatch_Lenient(fs, i, nxt) ==
    IF fs[i].value.tag = "Bool"
    THEN Outcome([fs EXCEPT ![i].value = Bool(~fs[i].value.v)], FALSE, FALSE)
    ELSE IF nxt = None THEN Outcome(fs, FALSE, FALSE)
    ELSE LET r == FlagValueParse(fs[i].value, nxt) IN
         IF r.ok THEN Outcome([fs EXCEPT ![i].value = r.v], TRUE, FALSE)
         ELSE Outcome(fs, TRUE, TRUE)

\* Mutant: the value token is read without being taken from the iterator, so
\* the next iteration reads it again as a flag-name token.
AppliedMatch_Peek(fs, i, nxt) ==
    IF fs[i].value.tag = "Bool"
    THEN Outcome([fs EXCEPT ![i].value = Bool(~fs[i].value.v)], FALSE, FALSE)
    ELSE IF nxt = None THEN Outcome(fs, FALSE, TRUE)
    ELSE LET r == FlagValueParse(fs[i].value, nxt) IN
         IF r.ok THEN Outcome([fs EXCEPT ![i].value = r.v], FALSE, FALSE)
         ELSE Outcome(fs, FALSE, TRUE)

\* Lines 171-181: the matched record i, not ignored.
AppliedMatch(fs, i, nxt) ==
    IF fs[i].value.tag = "Bool"
    THEN Outcome([fs EXCEPT ![i].value = Bool(~fs[i].value.v)], FALSE, FALSE)
    ELSE IF nxt = None THEN Outcome(fs, FALSE, TRUE)
    ELSE LET r == FlagValueParse(fs[i].value, nxt) IN
         IF r.ok THEN Outcome([fs EXCEPT ![i].value = r.v], TRUE, FALSE)
         ELSE Outcome(fs, TRUE, TRUE)

\* Mutant: a token naming no record is an error.
ParseArg_UnknownPanics(fs, mode, tok, nxt) ==
    IF IsSkipped(tok) THEN Outcome(fs, FALSE, FALSE)
    ELSE LET i == FindFlag(fs, NameOf(tok)) IN
         IF i = 0 THEN Outcome(fs, FALSE, TRUE)
         ELSE IF EffectiveIgnore(mode, tok) THEN IgnoredMatch(fs, i, nxt)
         ELSE AppliedMatch(fs, i, nxt)

\* Mutant: the scan does not break after a Bool flag was toggled, so every
\* Bool record that goes by the name is toggled.
ParseArg_NoBreak(fs, mode, tok, nxt) ==
    IF IsSkipped(tok) THEN Outcome(fs, FALSE, FALSE)
    ELSE LET name == NameOf(tok)
             i == FindFlag(fs, name) IN
         IF i = 0 THEN Outcome(fs, FALSE, FALSE)
         ELSE IF EffectiveIgnore(mode, tok) THEN IgnoredMatch(fs, i, nxt)
         ELSE IF fs[i].value.tag = "Bool"
         THEN Outcome([k \in 1..Len(fs) |->
                         IF /\ fs[k].name = name \/ fs[k].short_form = name
                            /\ fs[k].value.tag = "Bool"
                         THEN [fs[k] EXCEPT !.value = Bool(~fs[k].value.v)]
                         ELSE fs[k]], FALSE, FALSE)
         ELSE AppliedMatch(fs, i, nxt)

\* Lines 126-182: one iteration, for the token tok.
ParseArg(fs, mode, tok, nxt) ==
    IF IsSkipped(tok) THEN Outcome(fs, FALSE, FALSE)
    ELSE LET i == FindFlag(fs, NameOf(tok)) IN
         IF i = 0 THEN Outcome(fs, FALSE, FALSE)
         ELSE IF EffectiveIgnore(mode, tok) THEN IgnoredMatch(fs, i, nxt)
         ELSE AppliedMatch(fs, i, nxt)

\* The iteration for tok calls proc_args.next() a second time: it is the
\* call that panics when the iterator is at its end.
AsksValue(fs, mode, tok) == ParseArg(fs, mode, tok, None).panicked

\* Flag::value, lines 211-213, for the handle returned by the h-th declaration:
\* it holds the Rc pushed into slot h (new_flag, lines 225-227), so it reads
\* record h.
Flag_value(h) == flags[h].value

\* parse_args is entered: the registry is borrowed, no token is read yet.
\* Mutant: every parse starts from the zero value of each Bool and Long flag.
parse_args_begin_Reset ==
    /\ pc = "idle"
    /\ pc' = "parsing"
    /\ arg' = None
    /\ val' = None
    /\ flags' = [i \in 1..Len(flags) |->
                   [flags[i] EXCEPT !.value =
                       CASE @.tag = "Bool" -> Bool(FALSE)
                         [] @.tag = "Long" -> Long(0)
                         [] OTHER -> @]]
    /\ UNCHANGED <<flag_ignore, consumed, thread, parked>>

parse_args_begin ==
    /\ pc = "idle"
    /\ pc' = "parsing"
    /\ arg' = None
    /\ val' = None
    /\ UNCHANGED <<flags, flag_ignore, consumed, thread, parked>>

\* One iteration of `while let Some(arg) = proc_args.next()`.  The iterator
\* yields MaxArgs tokens at most: a value token is there only when two more
\* fit.
parse_args_step(tokens) ==
    /\ pc = "parsing"
    /\ consumed < MaxArgs
    /\ \E tok \in tokens :
       \E nxt \in IF /\ AsksValue(flags, flag_ignore, tok)
                     /\ consumed + 2 <= MaxArgs
                  THEN tokens \cup {None} ELSE {None} :
         \E r \in { ParseArg(flags, flag_ignore, tok, nxt) } :
         /\ consumed + (IF r.took THEN 2 ELSE 1) <= MaxArgs
         /\ flags' = r.flags
         /\ arg' = tok
         /\ val' = IF r.took THEN nxt ELSE None
         /\ consumed' = consumed + (IF r.took THEN 2 ELSE 1)
         /\ pc' = IF r.panicked THEN "panicked" ELSE "parsing"
    /\ UNCHANGED <<flag_ignore, thread, parked>>

\* proc_args.next() returns None: the loop ends and parse_args returns.
parse_args_end ==
    /\ pc = "parsing"
    /\ pc' = "idle"
    /\ arg' = None
    /\ val' = None
    /\ UNCHANGED <<flags, flag_ignore, consumed, thread, parked>>

NextIn(U) ==
    \/ /\ position < U.decls
       /\ \E name \in U.names, value \in U.values : new_flag(name, value)
    \/ /\ position < U.decls
       /\ \E name \in U.names, short_form \in U.short_forms, value \in U.values :
            new_flag_short(name, short_form, value)
    \/ disable_flag_ignore
    \/ parse_args_begin
    \/ parse_args_step(U.tokens)
    \/ parse_args_end

Next == NextIn(Matching)

Spec == Init /\ [][Next]_vars

NextQuoting == NextIn(Quoting)

SpecQuoting == Init /\ [][NextQuoting]_vars

NextDeclaring == NextIn(Declaring)

SpecDeclaring == Init /\ [][NextDeclaring]_vars

NextCapacity == NextIn(Capacity)

SpecCapacity == Init /\ [][NextCapacity]_vars

NextMarking == NextIn(Marking)

SpecMarking == Init /\ [][NextMarking]_vars

NextNumeric == NextIn(Numeric)

SpecNumeric == Init /\ [][NextNumeric]_vars

NextKinds == NextIn(Kinds)

SpecKinds == Init /\ [][NextKinds]_vars

NextAliasing == NextIn(Aliasing)

SpecAliasing == Init /\ [][NextAliasing]_vars

NextThreading ==
    \/ NextIn(Threading)
    \/ \E t \in Threads : run_on(t)

SpecThreading == Init /\ [][NextThreading]_vars

\* ----------------------------------------------------------------- claims

\* A step of the loop of parse_args was taken: it is the only step that takes
\* tokens from the iterator.  After it arg' is the flag-name token, val' the
\* token taken as its value (None when none was taken).
Iterated == pc = "parsing" /\ consumed' # consumed

\* The record r goes by name, as its canonical name or its short form.
GoesBy(r, name) == r.name = name \/ r.short_form = name

\* The earliest-registered record of fs that goes by name.
EarliestBy(fs, name) == CHOOSE i \in 1..Len(fs) :
    GoesBy(fs[i], name) /\ \A j \in 1..(i - 1) : ~GoesBy(fs[j], name)

\* The record r is named by the token tok, by canonical name or short form.
Names(tok, r) == GoesBy(r, NameOf(tok))

\* The token tok names a record of fs.
Known(fs, tok) ==
    /\ ~IsSkipped(tok)
    /\ LET name == NameOf(tok) IN \E i \in 1..Len(fs) : GoesBy(fs[i], name)

\* The earliest-registered record of fs that tok names.
Earliest(fs, tok) == EarliestBy(fs, NameOf(tok))

KnownNonBool(fs, tok) ==
    Known(fs, tok) /\ fs[Earliest(fs, tok)].value.tag # "Bool"

KnownBool(fs, tok) ==
    Known(fs, tok) /\ fs[Earliest(fs, tok)].value.tag = "Bool"

\* C1: with ignore mode enabled, an ignore-marked token naming a non-Bool flag
\* takes exactly the next token as its value and discards it: no flag changes
\* (neither the named flag nor one the discarded token names) and the loop
\* goes on with the token after it.
C1_IgnoredValueDiscarded ==
    [][(/\ Iterated
        /\ flag_ignore
        /\ IsMarked(arg')
        /\ KnownNonBool(flags, arg')
        /\ pc' # "panicked")
       => (/\ flags' = flags
           /\ val' # None
           /\ consumed' = consumed + 2
           /\ pc' = "parsing")]_vars

\* C1 witness: an ignored occurrence of a non-Bool flag has discarded a value
\* token that itself names a declared flag.
C1_Witness ==
    /\ pc = "parsing"
    /\ flag_ignore
    /\ arg # None /\ IsMarked(arg) /\ KnownNonBool(flags, arg)
    /\ val # None /\ Known(flags, val)

\* C2: a step changes only the earliest-registered record its token names; a
\* later record sharing that name or short form is never changed by it.
C2_FirstMatchWins ==
    [][Iterated =>
        \A i \in 1..Len(flags) :
            flags'[i] # flags[i] =>
                /\ Names(arg', flags[i])
                /\ \A j \in 1..(i - 1) : ~Names(arg', flags[j])]_vars

\* C2 witness: two records are named by the token (the later one by its
\* canonical name, the earlier one by its short form only); the earlier one
\* was changed, the later one holds its default.
C2_Witness ==
    /\ pc = "parsing"
    /\ Len(flags) >= 2
    /\ arg # None
    /\ Names(arg, flags[1]) /\ Names(arg, flags[2])
    /\ flags[1].name # NameOf(arg) /\ flags[2].name = NameOf(arg)
    /\ flags[1].value = Bool(TRUE)
    /\ flags[2].value \in Matching.values

\* C3: a token naming no record changes no flag, raises no error and takes no
\* further token.
C3_UnknownTokenNoOp ==
    [][(Iterated /\ ~Known(flags, arg'))
       => (/\ flags' = flags
           /\ pc' = "parsing"
           /\ val' = None
           /\ consumed' = consumed + 1)]_vars

\* C3 witness: an unknown token (not a dash-only one) was met while flags
\* were declared.
C3_Witness ==
    /\ pc = "parsing"
    /\ flags # <<>>
    /\ arg # None /\ ~IsSkipped(arg) /\ ~Known(flags, arg)

\* C4: in and around parse_args only the flags named by a flag-name token
\* change: entering and leaving parse_args change no flag, and a step leaves
\* every record its token does not name as it was, also a record named by the
\* token taken as the value.
C4_UnnamedFlagsKept ==
    [][(pc = "parsing" \/ pc' = "parsing")
       => /\ Len(flags') = Len(flags)
          /\ \A i \in 1..Len(flags) :
                \/ flags'[i] = flags[i]
                \/ Iterated /\ Known(flags, arg') /\ Names(arg', flags[i])]_vars

\* C4 witness: the token taken as a value names a declared flag that the
\* flag-name token does not name, and that flag holds its default.
C4_Witness ==
    /\ pc = "parsing"
    /\ arg # None /\ val # None
    /\ \E i \in 1..Len(flags) :
          /\ Names(val, flags[i])
          /\ ~Names(arg, flags[i])
          /\ flags[i].value \in Matching.values

\* C5: a token naming a Bool flag negates it when the occurrence is not
\* effectively ignored and leaves it alone when it is; either way no further
\* token is taken and no other record changes.
C5_BoolToggled ==
    [][(Iterated /\ KnownBool(flags, arg'))
       => LET i == Earliest(flags, arg') IN
          /\ flags'[i].value =
                IF flag_ignore /\ IsMarked(arg')
                THEN flags[i].value
                ELSE Bool(~flags[i].value.v)
          /\ \A j \in 1..Len(flags) : j # i => flags'[j] = flags[j]
          /\ val' = None
          /\ consumed' = consumed + 1
          /\ pc' = "parsing"]_vars

\* C5 witness: a Bool flag declared FALSE is FALSE again after a second
\* occurrence (the token counter shows that two tokens at least were taken).
C5_Witness ==
    /\ pc = "parsing"
    /\ consumed >= 2
    /\ arg # None /\ ~IsMarked(arg) /\ KnownBool(flags, arg)
    /\ flags[Earliest(flags, arg)].value = Bool(FALSE)

\* The token tok with the name written in it replaced by name: its dashes and
\* its ignore mark are kept.
Renamed(tok, name) == SubSeq(tok, 1, Len(tok) - Len(NameOf(tok))) \o name

\* The step just taken, on the token arg' and the value token val', has the
\* outcome the parser gives for the token tok in place of arg'.
SameOutcomeFor(tok) ==
    LET r == ParseArg(flags, flag_ignore, tok, val') IN
    /\ flags' = r.flags
    /\ (val' # None) = r.took
    /\ (pc' = "panicked") = r.panicked

\* C6 as stated: for every record, a token writing its canonical name and the
\* same token writing its short form have the same outcome.
C6_AliasEquivalence_Stated ==
    [][(Iterated /\ ~IsSkipped(arg')) =>
        LET name == NameOf(arg') IN
        \A i \in 1..Len(flags) :
            name = flags[i].name
            => SameOutcomeFor(Renamed(arg', flags[i].short_form))]_vars

\* C6 as amended: the two tokens have the same outcome when the short form
\* written in the token is read back as the name of the token (it is not
\* empty and starts with neither '-' nor '/') and the earliest record going
\* by the short form is the earliest one going by the canonical name.
C6_AliasEquivalence ==
    [][(Iterated /\ ~IsSkipped(arg')) =>
        LET name == NameOf(arg') IN
        \A i \in 1..Len(flags) :
            LET short == flags[i].short_form IN
            (/\ name = flags[i].name
             /\ short # <<>> /\ Head(short) \notin {"-", "/"}
             /\ EarliestBy(flags, short) = EarliestBy(flags, name))
            => SameOutcomeFor(Renamed(arg', short))]_vars

\* C6 witness: a token wrote the canonical name of a record whose short form
\* differs from it and names the same earliest record, and changed that
\* record.
C6_Witness ==
    /\ pc = "parsing"
    /\ arg # None /\ Known(flags, arg)
    /\ LET i == Earliest(flags, arg) IN
       /\ NameOf(arg) = flags[i].name
       /\ flags[i].short_form # flags[i].name
       /\ Earliest(flags, Renamed(arg, flags[i].short_form)) = i
       /\ flags[i].value \notin Matching.values

\* C9: a token naming a non-Bool flag with no token after it is fatal: the
\* step that takes no value token for it panics and changes no flag, so what
\* the earlier tokens did stays as it was, and nothing happens after a panic.
C9_StarvedValue ==
    [][/\ (Iterated /\ KnownNonBool(flags, arg') /\ val' = None)
            => (pc' = "panicked" /\ flags' = flags)
       /\ pc = "panicked" => UNCHANGED vars]_vars

\* C9 witness: the panic came after an earlier token had changed a flag.
C9_Witness ==
    /\ pc = "panicked"
    /\ arg # None /\ KnownNonBool(flags, arg) /\ val = None
    /\ ~(flag_ignore /\ IsMarked(arg))
    /\ \E i \in 1..Len(flags) : flags[i].value \notin Matching.values

\* C10 as stated: an effectively ignored occurrence of a non-Bool flag with no
\* token after it is accepted, without a panic and without a change.
C10_IgnoredNeedsNoValue_Stated ==
    [][(/\ Iterated
        /\ flag_ignore /\ IsMarked(arg')
        /\ KnownNonBool(flags, arg')
        /\ val' = None)
       => (pc' = "parsing" /\ flags' = flags)]_vars

\* C10 as amended: a value token is asked for exactly when the token names a
\* non-Bool flag, effectively ignored or not; the effectively ignored
\* occurrence with no token after it panics, and no flag changes.
C10_ValueRequired ==
    [][Iterated =>
        /\ (val' # None \/ pc' = "panicked") => KnownNonBool(flags, arg')
        /\ (KnownNonBool(flags, arg') /\ flag_ignore /\ IsMarked(arg'))
              => \/ val' # None /\ pc' = "parsing" /\ flags' = flags
                 \/ val' = None /\ pc' = "panicked" /\ flags' = flags]_vars

\* C10 witness: an effectively ignored occurrence of a non-Bool flag was the
\* last token.
C10_Witness ==
    /\ pc = "panicked"
    /\ flag_ignore
    /\ arg # None /\ IsMarked(arg) /\ KnownNonBool(flags, arg)
    /\ val = None

KnownString(fs, tok) ==
    Known(fs, tok) /\ fs[Earliest(fs, tok)].value.tag = "String"

\* The text s without its first and its last character.
Unquoted(s) == SubSeq(s, 2, Len(s) - 1)

\* C7 as stated: for a String flag and every value token, a token starting
\* with a double quote is stored without its first and last character,
\* whatever the last character is (a lone double quote included), and any
\* other token is stored as it is.
C7_StringStored_Stated ==
    [][(/\ Iterated
        /\ KnownString(flags, arg')
        /\ ~(flag_ignore /\ IsMarked(arg'))
        /\ val' # None)
       => /\ pc' = "parsing"
          /\ flags'[Earliest(flags, arg')].value =
                String(IF StartsWith(val', "\"") THEN Unquoted(val') ELSE val')]_vars

\* A step of new_flag or new_flag_short: the only steps out of "idle" that
\* change the records or panic.
Declared == pc = "idle" /\ (flags' # flags \/ pc' = "panicked")

\* C8 as stated: at most FLAG_CAP records; every declaration made with fewer
\* than FLAG_CAP records present appends one record, and a declaration made
\* with FLAG_CAP records present is fatal and leaves the records alone.
C8_Capacity_Stated ==
    [][/\ Len(flags') <= FLAG_CAP
       /\ Declared =>
            IF Len(flags) < FLAG_CAP
            THEN /\ pc' = "idle"
                 /\ Len(flags') = Len(flags) + 1
                 /\ SubSeq(flags', 1, Len(flags)) = flags
            ELSE pc' = "panicked" /\ flags' = flags]_vars

\* C8, the part about the capacity alone: a declaration that panics with
\* fewer than FLAG_CAP records present panics in OwnedFlag::new, over its
\* name; every other declaration is as C8 states.
C8_CapacityOfSliceableNames ==
    [][/\ Len(flags') <= FLAG_CAP
       /\ Declared =>
            IF Len(flags) < FLAG_CAP
            THEN \/ /\ pc' = "idle"
                    /\ Len(flags') = Len(flags) + 1
                    /\ SubSeq(flags', 1, Len(flags)) = flags
                 \/ pc' = "panicked" /\ flags' = flags
            ELSE pc' = "panicked" /\ flags' = flags]_vars

\* The registry is full and a further declaration has panicked.
C8_CapacityReached == pc = "panicked" /\ Len(flags) = FLAG_CAP

(***************************************************************************)
(* C11 - C20                                                               *)
(***************************************************************************)

\* The token tok without its ignore mark: the dashes, then what follows '/'.
Unmarked(tok) ==
    SubSeq(tok, 1, Len(tok) - Len(StripDashes(tok))) \o Tail(StripDashes(tok))

\* C11 as stated: once ignore mode is disabled, every ignore-marked token
\* behaves exactly like the same token without the '/'.
C11_MarkWithoutEffect_Stated ==
    [][(Iterated /\ ~flag_ignore /\ IsMarked(arg'))
       => SameOutcomeFor(Unmarked(arg'))]_vars

\* C11 amended: once ignore mode is disabled, an ignore-marked token whose
\* name (what follows the '/') is not empty and starts with neither '-' nor
\* '/' behaves exactly like the same token without the '/': a matched Bool
\* flag is toggled, a matched non-Bool flag takes the next token as value.
C11_MarkWithoutEffect ==
    [][(/\ Iterated
        /\ ~flag_ignore
        /\ IsMarked(arg')
        /\ NameOf(arg') # <<>>
        /\ Head(NameOf(arg')) \notin { "-", "/" })
       => (/\ SameOutcomeFor(Unmarked(arg'))
           /\ KnownBool(flags, arg')
              => flags'[Earliest(flags, arg')].value
                   = Bool(~flags[Earliest(flags, arg')].value.v)
           /\ KnownNonBool(flags, arg')
              => (val' # None \/ pc' = "panicked"))]_vars

\* A marked token has toggled a Bool flag after ignore mode was disabled.
C11_Witness ==
    /\ pc = "parsing"
    /\ ~flag_ignore
    /\ arg # None
    /\ IsMarked(arg)
    /\ NameOf(arg) = <<"v">>
    /\ KnownBool(flags, arg)
    /\ flags[Earliest(flags, arg)].value = Bool(TRUE)
    /\ consumed = 1

\* C12 as stated: when a declaration is made twice with the same name, every
\* change a parse makes to the value read through one of the two handles is
\* also read through the other.
C12_SharedHandles_Stated ==
    [][Iterated
       => \A h1, h2 \in 1..Len(flags) :
             (/\ flags[h1].name = flags[h2].name
              /\ flags[h1].short_form = flags[h2].short_form
              /\ Flag_value(h1) = Flag_value(h2)
              /\ Flag_value(h1)' # Flag_value(h1))
             => Flag_value(h2)' = Flag_value(h1)']_vars

\* C12 amended: two declarations with the same name give handles to two
\* records; a token writing that name leaves the value read through the
\* later handle unchanged, whatever it does to the earlier one.
C12_LaterHandleUntouched ==
    [][Iterated
       => \A h1, h2 \in 1..Len(flags) :
             (/\ h1 < h2
              /\ flags[h1].name = flags[h2].name
              /\ NameOf(arg') = flags[h1].name)
             => Flag_value(h2)' = Flag_value(h2)]_vars

\* The same Bool flag was declared twice and a token writing its name has
\* toggled the first record only.
C12_Witness ==
    /\ pc = "parsing"
    /\ arg # None
    /\ Len(flags) = 2
    /\ flags[1].name = flags[2].name
    /\ flags[1].short_form = flags[2].short_form
    /\ NameOf(arg) = flags[1].name
    /\ Flag_value(1) = Bool(TRUE)
    /\ Flag_value(2) = Bool(FALSE)

\* The registry the thread t declares into and parses against.
RegistryOf(t) ==
    IF t = thread THEN [flags |-> flags, flag_ignore |-> flag_ignore]
    ELSE [flags |-> parked[t].flags, flag_ignore |-> parked[t].flag_ignore]

\* C13 as stated: the registry is one process-wide state whatever thread
\* performs a call, so the thread that takes over acts on the records and the
\* ignore mode the previous thread left.
C13_ProcessWide_Stated ==
    [][thread' # thread
       => (flags' = flags /\ flag_ignore' = flag_ignore)]_vars

\* C13, what the code does instead: thread_local! gives every thread a
\* registry of its own; a call changes the registry of the calling thread
\* only, so a flag declared on one thread is not scanned by a parse run on
\* another thread.
C13_RegistryPerThread ==
    [][\A t \in Threads :
          RegistryOf(t)' # RegistryOf(t) => (t = thread /\ thread' = thread)]_vars

\* The worker parses a token naming a flag the main thread declared and
\* toggled: its own registry is empty and main's record is as main left it.
C13_Witness ==
    /\ thread = "worker"
    /\ pc = "parsing"
    /\ arg = <<"-", "v">>
    /\ flags = <<>>
    /\ Len(parked["main"].flags) = 1
    /\ parked["main"].flags[1].name = <<"v">>
    /\ parked["main"].flags[1].value = Bool(TRUE)
    /\ parked["main"].pc = "idle"

\* The kinds whose value token is parsed as a number.
NumericKinds == { "Long", "ULong", "Float", "Double" }

\* The letters of s spell word, a sequence of the two cases of each letter.
Spells(s, word) ==
    Len(s) = Len(word) /\ \A i \in 1..Len(s) : s[i] \in word[i]

\* Decimal digits with at most one '.' among them, and one digit at least.
IsMantissa(s) ==
    /\ \A i \in 1..Len(s) : IsDigit(s[i]) \/ s[i] = "."
    /\ Cardinality({ i \in 1..Len(s) : s[i] = "." }) <= 1
    /\ \E i \in 1..Len(s) : IsDigit(s[i])

\* 'e' or 'E', then a sign or none, then digits, one at least.
IsExponentPart(s) ==
    /\ Len(s) >= 2
    /\ s[1] \in { "e", "E" }
    /\ AllDigits(IF s[2] \in { "+", "-" } THEN SubSeq(s, 3, Len(s))
                 ELSE Tail(s))

\* The floating-point literals, without their sign: a mantissa and perhaps
\* an exponent part, or one of the words inf, infinity and nan in any case.
\* (No range: a literal too large writes an infinity, one too small zero.)
FloatLiteral(s) ==
    \/ \E k \in 1..Len(s) :
          /\ IsMantissa(SubSeq(s, 1, k))
          /\ k = Len(s) \/ IsExponentPart(SubSeq(s, k + 1, Len(s)))
    \/ Spells(s, << {"i", "I"}, {"n", "N"}, {"f", "F"} >>)
    \/ Spells(s, << {"i", "I"}, {"n", "N"}, {"f", "F"}, {"i", "I"},
                   {"n", "N"}, {"i", "I"}, {"t", "T"}, {"y", "Y"} >>)
    \/ Spells(s, << {"n", "N"}, {"a", "A"}, {"n", "N"} >>)

\* The token s is not a valid literal of the kind tag.  After a sign ('+'
\* or, except for ULong, '-'), an integer literal is digits, one at least,
\* that write a number in the range of the kind; a Float or Double literal
\* is a floating-point literal.
InvalidLiteral(tag, s) ==
    LET signed == /\ s # <<>>
                  /\ Head(s) = "+" \/ (Head(s) = "-" /\ tag # "ULong")
        body == IF signed THEN Tail(s) ELSE s
    IN  IF tag \in { "Float", "Double" } THEN ~FloatLiteral(body)
        ELSE \/ body = <<>>
             \/ \E i \in 1..Len(body) : ~IsDigit(body[i])
             \/ /\ tag = "Long"
                /\ ~DecLeq(body, IF Head(s) = "-" THEN I64_MIN_MAGNITUDE
                                                  ELSE I64_MAX)
             \/ tag = "ULong" /\ ~DecLeq(body, U64_MAX)

\* C14: when the value token of a non-ignored Long, ULong, Float or Double
\* flag is not a valid literal of that kind, the parse fails fatally: every
\* record, the matched one included, keeps the value it had (so the changes
\* of earlier tokens stay), and no later token is processed.
C14_ParseFailure ==
    [][/\ (/\ Iterated
           /\ KnownNonBool(flags, arg')
           /\ flags[Earliest(flags, arg')].value.tag \in NumericKinds
           /\ ~(flag_ignore /\ IsMarked(arg'))
           /\ val' # None
           /\ InvalidLiteral(flags[Earliest(flags, arg')].value.tag, val'))
          => (pc' = "panicked" /\ flags' = flags)
       /\ pc = "panicked" => (flags' = flags /\ consumed' = consumed)]_vars

\* A negative literal was given to a ULong flag after an earlier token had
\* toggled a Bool flag: the parse has failed, the toggle is kept, the ULong
\* flag has its old value.
C14_Witness ==
    /\ pc = "panicked"
    /\ consumed = 3
    /\ arg = <<"-", "n">>
    /\ val = <<"-", "9">>
    /\ Len(flags) = 2
    /\ flags[1].value = ULong(0)
    /\ flags[2].value = Bool(TRUE)

\* C15: every iteration takes the next token as a flag-name token and at most
\* one more as its value; a value token is taken exactly when the name token
\* matches a non-Bool flag (Bool flags and unmatched tokens take none), and
\* the token taken as a value is not acted on as a flag name, even when it
\* names a declared flag.
C15_TokensConsumedOnce ==
    [][Iterated
       => (/\ arg' # None
           /\ consumed' = consumed + (IF val' = None THEN 1 ELSE 2)
           /\ val' # None => KnownNonBool(flags, arg')
           /\ (KnownNonBool(flags, arg') /\ pc' # "panicked") => val' # None
           /\ val' # None
              => \A i \in 1..Len(flags) :
                    i # Earliest(flags, arg') => flags'[i] = flags[i])]_vars

\* ["--l", "-/s"]: the String flag l has taken the token "-/s", which names
\* the Bool flag with short form s, as its value; the Bool flag is untouched.
C15_Witness ==
    /\ pc = "parsing"
    /\ consumed = 2
    /\ arg = <<"-", "-", "l">>
    /\ val = <<"-", "/", "s">>
    /\ Len(flags) = 2
    /\ flags[1].value = String(<<"-", "/", "s">>)
    /\ flags[2].short_form = <<"s">>
    /\ flags[2].value = Bool(FALSE)

\* The token tok with d leading dashes in place of its own.
Dashed(d, tok) == [i \in 1..d |-> "-"] \o StripDashes(tok)

\* The token tok is empty or consists of dashes only.
OnlyDashes(tok) == \A i \in 1..Len(tok) : tok[i] = "-"

\* C16: the number of leading dashes of a flag-name token is irrelevant: the
\* token has the effect of the same token written with none, one, two or
\* three leading dashes; a token that is empty or consists of dashes only
\* changes nothing and takes no following token.
C16_DashesIrrelevant ==
    [][Iterated
       => (/\ \A d \in 0..3 : SameOutcomeFor(Dashed(d, arg'))
           /\ OnlyDashes(arg')
              => (/\ flags' = flags
                  /\ val' = None
                  /\ pc' = "parsing"
                  /\ consumed' = consumed + 1))]_vars

\* The token "--v", read as the second token of the run, has toggled the
\* Bool flag v.
C16_Witness ==
    /\ pc = "parsing"
    /\ consumed = 2
    /\ arg = <<"-", "-", "v">>
    /\ val = None
    /\ Len(flags) >= 1
    /\ flags[1].name = <<"v">>
    /\ flags[1].value = Bool(TRUE)

\* C17: no step changes the kind, the canonical name or the short alias of a
\* record, nor removes or reorders records: only payloads change.
C17_RecordShapeFixed ==
    [][/\ Len(flags') >= Len(flags)
       /\ \A i \in 1..Len(flags) :
             /\ flags'[i].name = flags[i].name
             /\ flags'[i].short_form = flags[i].short_form
             /\ flags'[i].value.tag = flags[i].value.tag]_vars

\* The payload of a Double flag was replaced by the value of the token "7".
C17_Witness ==
    /\ pc = "parsing"
    /\ arg = <<"-", "n">>
    /\ val = <<"7">>
    /\ Len(flags) >= 1
    /\ flags[1] = [name |-> <<"n">>, short_form |-> <<"n">>,
                   value |-> Double(Whole(FALSE, <<"7">>))]

\* The record r has the short alias its declaration asks for: the explicit
\* one, or the first character of its canonical name.
AliasAsDeclared(r) ==
    \/ r.short_form \in Aliasing.short_forms
    \/ r.name # <<>> /\ r.short_form = <<Head(r.name)>>

\* C18 as stated: every declaration (made below the capacity) yields a record
\* whose short alias is the explicit one or else the first character of the
\* canonical name, and a token changes a record only when it writes the
\* record's canonical name or that alias.
C18_DefaultAlias_Stated ==
    [][/\ Declared
          => (/\ pc' = "idle" \/ Len(flags) = FLAG_CAP
              /\ flags' # flags => AliasAsDeclared(flags'[Len(flags')]))
       /\ Iterated
          => \A i \in 1..Len(flags) :
                flags'[i] # flags[i]
                => NameOf(arg') \in { flags[i].name, flags[i].short_form }]_vars

\* C18, the part that holds: every record that exists has the alias its
\* declaration asks for and is changed only by a token writing its canonical
\* name or that alias; a declaration that fails below the capacity fails in
\* OwnedFlag::new, over its name.
C18_AliasOfExistingRecords ==
    [][/\ \A i \in 1..Len(flags') : AliasAsDeclared(flags'[i])
       /\ Iterated
          => \A i \in 1..Len(flags) :
                flags'[i] # flags[i]
                => NameOf(arg') \in { flags[i].name, flags[i].short_form }]_vars

\* The flag vb, declared without an alias, was toggled by the token "-v".
C18_MatchedByFirstCharacter ==
    /\ pc = "parsing"
    /\ arg = <<"-", "v">>
    /\ Len(flags) >= 1
    /\ flags[1] = [name |-> <<"v", "b">>, short_form |-> <<"v">>,
                   value |-> Bool(TRUE)]

\* C19: parsing is cumulative and compositional.  Entering and leaving
\* parse_args changes neither the records nor the ignore mode, so a parse
\* starts from the values the previous one left; and an iteration made from
\* a registry has the outcome that the registry, the ignore mode and the
\* tokens read determine, whether the tokens before it were read by this
\* call of parse_args or by an earlier one.
C19_Compositional ==
    [][/\ (pc = "idle" /\ pc' = "parsing") \/ (pc = "parsing" /\ pc' = "idle")
          => (flags' = flags /\ flag_ignore' = flag_ignore)
       /\ Iterated => SameOutcomeFor(arg')]_vars

\* A second parse has started and reads the value the first one stored.
C19_Witness ==
    /\ pc = "parsing"
    /\ arg = None
    /\ consumed = 2
    /\ Len(flags) >= 1
    /\ Flag_value(1) = Long(7)

\* C20: the ignore mode is enabled at the start and is monotone: no step
\* enables it, and the only step that changes it is a call made outside
\* parse_args that changes nothing else.
C20_IgnoreModeMonotone ==
    /\ flag_ignore = TRUE
    /\ [][/\ flag_ignore' => flag_ignore
          /\ flag_ignore' # flag_ignore
             => (/\ pc = "idle"
                 /\ pc' = "idle"
                 /\ flags' = flags
                 /\ consumed' = consumed)]_vars

\* Ignore mode was disabled before a flag was declared and tokens parsed, and
\* is still disabled.
C20_Witness ==
    /\ ~flag_ignore
    /\ pc = "idle"
    /\ consumed = MaxArgs
    /\ Len(flags) = MaxFlags

====
